---- MODULE Spec2Model ----
(***************************************************************************)
(* Task / project services of the task-project manager, over a document    *)
(* store with two collections, "tasks" and "projects".                     *)
(*                                                                         *)
(* Every service function is an async function that suspends at each       *)
(* storage call.  A storage call is one atomic step of the model; a        *)
(* service call is one or two such steps.  Spec lets the requests of       *)
(* Procs interleave at storage calls; SeqSpec runs one call at a time.     *)
(*                                                                         *)
(* A document is a function from field names to values; an optional field  *)
(* that is not stored is not in the DOMAIN of the document.  A value of an *)
(* update DTO is <<v>>, or <<>> for the JavaScript value undefined.        *)
(***************************************************************************)
EXTENDS Integers, Sequences, FiniteSets, TLC

\* ------------------------------------------------------------------ bounds
MaxTaskIds == 2        \* identifiers the tasks collection hands out
MaxProjectIds == 2     \* identifiers the projects collection hands out
MaxTime == 1           \* the clock runs over 0..MaxTime
MaxCalls == 2          \* service calls started in one behaviour
MaxPatchKeys == 1      \* keys an update DTO carries
MaxRequests == 3       \* HTTP requests that arrive in one behaviour
limiterMax == 1        \* rateLimit({ max }): 100 in the code, scaled down

\* ------------------------------------------------------------------ values
Procs == {"r1", "r2"}
Names == {"a", "b"}
Statuses == {"TODO", "DONE"}
ClientDates == {0}
Descriptions == {"d"}

\* ObjectId.isValid: Malformed is a string that is no ObjectId, GhostId a
\* well-formed ObjectId that no collection ever handed out.
Malformed == -1
GhostId == 0
isValid(id) == id >= 0

undefined == <<>>

\* ------------------------------------------------------- the storage gateway
EmptyColl == <<>>

\* variant: the query finds nothing, the name check is lost
findByNameNone(coll, q) == {}

\* variant: the query matches the documents of another name
findByNameOther(coll, q) ==
  {i \in DOMAIN coll : "name" \in DOMAIN coll[i] /\ <<coll[i].name>> # q}

\* collection.findOne({ name: q }): the driver sends undefined as null, and
\* { name: null } matches the documents without a name.
findByName(coll, q) ==
  {i \in DOMAIN coll :
     IF q = undefined THEN "name" \notin DOMAIN coll[i]
     ELSE "name" \in DOMAIN coll[i] /\ coll[i].name = q[1]}

\* variant: a unique index on name, the insert of a stored name stores nothing
insertOneUnique(coll, id, doc) ==
  IF \E i \in DOMAIN coll : coll[i].name = doc.name THEN coll
  ELSE (id :> doc) @@ coll

\* collection.insertOne(doc), the store assigning _id
insertOne(coll, id, doc) == (id :> doc) @@ coll

\* variant: the document is replaced by upd instead of merged with it
updateOneReplace(coll, id, upd) ==
  IF id \in DOMAIN coll THEN [coll EXCEPT ![id] = upd] ELSE coll

\* collection.updateOne({ _id: id }, { $set: upd })
updateOne(coll, id, upd) ==
  IF id \in DOMAIN coll THEN [coll EXCEPT ![id] = upd @@ coll[id]] ELSE coll

matchedCount(coll, id) == IF id \in DOMAIN coll THEN 1 ELSE 0

modifiedCount(coll, id, upd) ==
  IF id \in DOMAIN coll /\ (upd @@ coll[id]) # coll[id] THEN 1 ELSE 0

\* collection.deleteOne({ _id: id })
deleteOne(coll, id) == [i \in DOMAIN coll \ {id} |-> coll[i]]

deletedCount(coll, id) == IF id \in DOMAIN coll THEN 1 ELSE 0

\* variant: the cascade deletes the referencing documents
unsetProjectIdDelete(coll, pid) ==
  [i \in {j \in DOMAIN coll :
            ~("projectId" \in DOMAIN coll[j] /\ coll[j].projectId = pid)} |->
     coll[i]]

\* collection.updateMany({ projectId: pid }, { $unset: { projectId: '' } })
unsetProjectId(coll, pid) ==
  [i \in DOMAIN coll |->
     IF "projectId" \in DOMAIN coll[i] /\ coll[i].projectId = pid
     THEN [k \in DOMAIN coll[i] \ {"projectId"} |-> coll[i][k]]
     ELSE coll[i]]

\* ------------------------------------------------------------------- DTOs
\* a property read of a DTO: undefined when the key is absent
prop(dto, k) == IF k \in DOMAIN dto THEN dto[k] ELSE undefined

\* Object.fromEntries(Object.entries(updateData).filter(value !== undefined))
cleanedData(updateData) ==
  [k \in {f \in DOMAIN updateData : updateData[f] # undefined} |->
     updateData[k][1]]

\* the ways a DTO carries key k: absent, undefined, or one of the values V
Opt(k, V) == {<<>>} \cup {k :> undefined} \cup {k :> <<v>> : v \in V}

\* ------------------------------------------------------------------- state
VARIABLES
  tasks,          \* the tasks collection: _id -> document
  projects,       \* the projects collection: _id -> document
  nextTaskId,     \* the next _id insertOne gives a task
  nextProjectId,  \* the next _id insertOne gives a project
  now,            \* the clock that new Date() reads
  req,            \* per request: the call it runs or ran, and where it is
  calls,          \* service calls started so far
  pre,            \* SeqSpec: the store the last call found, and its argument
  http            \* HttpSpec: the request in the app, and the limiter's count

vars ==
  <<tasks, projects, nextTaskId, nextProjectId, now, req, calls, pre, http>>

NoCall == [tasks |-> EmptyColl, projects |-> EmptyColl, arg |-> <<>>]

Rec(op, pc, id, pid, arg, out, ret, at) ==
  [op |-> op, pc |-> pc, id |-> id, pid |-> pid, arg |-> arg,
   out |-> out, ret |-> ret, at |-> at]

Idle == Rec("none", "idle", GhostId, GhostId, <<>>, "none", 0, 0)

Failures == {"InvalidArgument", "Conflict", "NotFound"}

\* ------------------------------------------------------------------ inputs
\* Identifiers a caller can pass: a malformed one, a well-formed one that
\* names nothing, and the ones a collection has handed out so far.
AllTaskIds == {Malformed, GhostId} \cup (1 .. MaxTaskIds)
AllProjectIds == {Malformed, GhostId} \cup (1 .. MaxProjectIds)
TaskIdInputs == {i \in AllTaskIds : i < nextTaskId}
ProjectIdInputs == {i \in AllProjectIds : i < nextProjectId}

\* the project identifier a create DTO / an update DTO names is one the
\* caller can know
KnownRef(dto) == "projectId" \in DOMAIN dto => dto.projectId < nextProjectId

KnownPatchRef(dto) ==
  "projectId" \in DOMAIN dto /\ dto.projectId # undefined
    => dto.projectId[1] < nextProjectId

\* the DTOs made of at most n of the given ways to carry a key
RECURSIVE Pick(_, _)
Pick(opts, n) ==
  IF n = 0 \/ opts = <<>> THEN {<<>>}
  ELSE Pick(Tail(opts), n)
         \cup {o @@ d : o \in Head(opts) \ {<<>>}, d \in Pick(Tail(opts), n - 1)}

\* CreateTaskDto = Omit<Task, '_id' | 'createdAt' | 'updatedAt' | 'doneDate'>
CreateTaskDtos ==
  {[name |-> n, status |-> s, startDate |-> sd, dueDate |-> dd] @@ pr :
     n \in Names, s \in Statuses, sd \in ClientDates, dd \in ClientDates,
     pr \in {<<>>} \cup {"projectId" :> i : i \in AllProjectIds \ {Malformed}}}

\* UpdateTaskDto = Partial<Omit<Task, '_id' | 'createdAt'>> & { updatedAt }
UpdateTaskDtos ==
  Pick(<<Opt("name", Names), Opt("status", Statuses),
         Opt("startDate", ClientDates), Opt("dueDate", ClientDates),
         Opt("doneDate", ClientDates),
         Opt("projectId", AllProjectIds \ {Malformed}),
         Opt("updatedAt", ClientDates)>>, MaxPatchKeys)

\* CreateProjectDto = Omit<Project, '_id' | 'createdAt' | 'updatedAt'>
CreateProjectDtos ==
  {[name |-> n, startDate |-> sd, endDate |-> ed] @@ ds :
     n \in Names, sd \in ClientDates, ed \in ClientDates,
     ds \in {<<>>} \cup {"description" :> x : x \in Descriptions}}

\* UpdateProjectDto = Partial<Omit<Project, '_id' | 'createdAt'>> & { updatedAt }
UpdateProjectDtos ==
  Pick(<<Opt("name", Names), Opt("description", Descriptions),
         Opt("startDate", ClientDates), Opt("endDate", ClientDates),
         Opt("updatedAt", ClientDates)>>, MaxPatchKeys)

\* ------------------------------------------------------------- call frames
\* A request starts a call when it runs none: in Spec whatever the other
\* requests do, in SeqSpec (seq) only when no call is running, and then pre
\* records the store the call finds and the DTO or status it is given.
Start(p, seq, arg) ==
  /\ calls < MaxCalls
  /\ req[p].pc # "second"
  /\ seq => \A q \in Procs : req[q].pc # "second"
  /\ calls' = calls + 1
  /\ pre' = IF seq THEN [tasks |-> tasks, projects |-> projects, arg |-> arg]
            ELSE pre
  /\ UNCHANGED http

\* the call of p is between its first and its second storage call
Second(p, op) == req[p].pc = "second" /\ req[p].op = op

Finish(p, out, ret, at) ==
  /\ req' = [req EXCEPT ![p] = [@ EXCEPT !.pc = "done", !.arg = <<>>,
                                         !.out = out, !.ret = ret, !.at = at]]
  /\ UNCHANGED http

InFlight(op) == Cardinality({q \in Procs : Second(q, op)})

\* the values a second new Date() can read after a first one read now
Later == {t \in {now, now + 1} : t <= MaxTime}

\* -------------------------------------------------------------- taskService
\* variant: the DTO is spread last, its status wins
taskToInsertDraftLast(taskData, createdAt, updatedAt) ==
  taskData
    @@ [status |-> "TODO", createdAt |-> createdAt, updatedAt |-> updatedAt]

\* the document createTask inserts
taskToInsert(taskData, createdAt, updatedAt) ==
  [status |-> "TODO", createdAt |-> createdAt, updatedAt |-> updatedAt]
    @@ taskData

\* variant: createTask inserts before it looks for the name
createTaskFindEager(p, seq, taskData) ==
  /\ Start(p, seq, taskData)
  /\ nextTaskId + InFlight("createTask") <= MaxTaskIds
  /\ tasks' = insertOne(tasks, nextTaskId, taskToInsert(taskData, now, now))
  /\ req' = [req EXCEPT ![p] =
       Rec("createTask", "second", GhostId, GhostId, taskData, "none", 0, now)]
  /\ UNCHANGED <<projects, nextTaskId, nextProjectId, now>>

\* createTask, to the findOne that looks for the name
createTaskFind(p, seq, taskData) ==
  /\ Start(p, seq, taskData)
  /\ IF findByName(tasks, <<taskData.name>>) # {}
       THEN req' = [req EXCEPT ![p] =
              Rec("createTask", "done", GhostId, GhostId, <<>>,
                  "Conflict", 0, now)]
       ELSE /\ nextTaskId + InFlight("createTask") <= MaxTaskIds
            /\ req' = [req EXCEPT ![p] =
                 Rec("createTask", "second", GhostId, GhostId, taskData,
                     "none", 0, now)]
  /\ UNCHANGED <<tasks, projects, nextTaskId, nextProjectId, now>>

\* createTask, from the two new Date() to the insertOne
createTaskInsert(p) ==
  /\ Second(p, "createTask")
  /\ \E t \in Later :
       /\ tasks' = insertOne(tasks, nextTaskId,
                             taskToInsert(req[p].arg, now, t))
       /\ now' = t
       /\ Finish(p, "ok", nextTaskId, now)
  /\ nextTaskId' = nextTaskId + 1
  /\ UNCHANGED <<projects, nextProjectId, calls, pre>>

\* variant: the findOne leaves out the task that is updated
updateTaskFindOthers(p, seq, id, updateData) ==
  /\ Start(p, seq, updateData)
  /\ IF ~isValid(id)
       THEN req' = [req EXCEPT ![p] =
              Rec("updateTask", "done", id, GhostId, <<>>,
                  "InvalidArgument", 0, now)]
       ELSE IF findByName(tasks, prop(updateData, "name")) \ {id} # {}
         THEN req' = [req EXCEPT ![p] =
                Rec("updateTask", "done", id, GhostId, <<>>,
                    "Conflict", 0, now)]
         ELSE req' = [req EXCEPT ![p] =
                Rec("updateTask", "second", id, GhostId, updateData,
                    "none", 0, now)]
  /\ UNCHANGED <<tasks, projects, nextTaskId, nextProjectId, now>>

\* updateTask, to the findOne that looks for updateData.name
updateTaskFind(p, seq, id, updateData) ==
  /\ Start(p, seq, updateData)
  /\ IF ~isValid(id)
       THEN req' = [req EXCEPT ![p] =
              Rec("updateTask", "done", id, GhostId, <<>>,
                  "InvalidArgument", 0, now)]
       ELSE IF findByName(tasks, prop(updateData, "name")) # {}
         THEN req' = [req EXCEPT ![p] =
                Rec("updateTask", "done", id, GhostId, <<>>,
                    "Conflict", 0, now)]
         ELSE req' = [req EXCEPT ![p] =
                Rec("updateTask", "second", id, GhostId, updateData,
                    "none", 0, now)]
  /\ UNCHANGED <<tasks, projects, nextTaskId, nextProjectId, now>>

\* updateTask, the updateOne that $sets cleanedData
updateTaskUpdate(p) ==
  /\ Second(p, "updateTask")
  /\ tasks' = updateOne(tasks, req[p].id, cleanedData(req[p].arg))
  /\ Finish(p, "ok",
            modifiedCount(tasks, req[p].id, cleanedData(req[p].arg)), now)
  /\ UNCHANGED <<projects, nextTaskId, nextProjectId, now, calls, pre>>

\* deleteTask
deleteTask(p, seq, id) ==
  /\ Start(p, seq, <<>>)
  /\ IF ~isValid(id)
       THEN /\ req' = [req EXCEPT ![p] =
                 Rec("deleteTask", "done", id, GhostId, <<>>,
                     "InvalidArgument", 0, now)]
            /\ tasks' = tasks
       ELSE /\ req' = [req EXCEPT ![p] =
                 Rec("deleteTask", "done", id, GhostId, <<>>,
                     "ok", deletedCount(tasks, id), now)]
            /\ tasks' = deleteOne(tasks, id)
  /\ UNCHANGED <<projects, nextTaskId, nextProjectId, now>>

\* variant: either status sets both dates
statusUpdateDataBoth(status, t1, t2) ==
  [status |-> status, updatedAt |-> t1, doneDate |-> t2, startDate |-> t2]

\* the $set document of updateTaskStatus: updatedAt read at t1, the date of
\* the status at t2
statusUpdateData(status, t1, t2) ==
  [status |-> status, updatedAt |-> t1]
    @@ (IF status = "DONE" THEN "doneDate" :> t2 ELSE <<>>)
    @@ (IF status = "TODO" THEN "startDate" :> t2 ELSE <<>>)

\* updateTaskStatus
updateTaskStatus(p, seq, id, status) ==
  /\ Start(p, seq, status)
  /\ IF ~isValid(id)
       THEN /\ req' = [req EXCEPT ![p] =
                 Rec("updateTaskStatus", "done", id, GhostId, <<>>,
                     "InvalidArgument", 0, now)]
            /\ UNCHANGED <<tasks, now>>
       ELSE \E t \in Later :
            /\ req' = [req EXCEPT ![p] =
                 Rec("updateTaskStatus", "done", id, GhostId, <<>>, "ok",
                     modifiedCount(tasks, id, statusUpdateData(status, now, t)),
                     now)]
            /\ tasks' = updateOne(tasks, id, statusUpdateData(status, now, t))
            /\ now' = t
  /\ UNCHANGED <<projects, nextTaskId, nextProjectId>>

\* variant: assignTaskToProject sets projectId before it looks for the project
assignTaskToProjectFindLate(p, seq, taskId, projectId) ==
  /\ Start(p, seq, <<>>)
  /\ IF ~isValid(projectId) \/ ~isValid(taskId)
       THEN /\ req' = [req EXCEPT ![p] =
                 Rec("assignTaskToProject", "done", taskId, projectId, <<>>,
                     "InvalidArgument", 0, now)]
            /\ tasks' = tasks
       ELSE /\ tasks' = updateOne(tasks, taskId, "projectId" :> projectId)
            /\ req' = [req EXCEPT ![p] =
                 IF projectId \notin DOMAIN projects
                 THEN Rec("assignTaskToProject", "done", taskId, projectId,
                          <<>>, "NotFound", 0, now)
                 ELSE Rec("assignTaskToProject", "second", taskId, projectId,
                          <<>>, "none", 0, now)]
  /\ UNCHANGED <<projects, nextTaskId, nextProjectId, now>>

\* assignTaskToProject, to the findOne that looks for the project
assignTaskToProjectFind(p, seq, taskId, projectId) ==
  /\ Start(p, seq, <<>>)
  /\ IF ~isValid(projectId) \/ ~isValid(taskId)
       THEN req' = [req EXCEPT ![p] =
              Rec("assignTaskToProject", "done", taskId, projectId, <<>>,
                  "InvalidArgument", 0, now)]
       ELSE IF projectId \notin DOMAIN projects
         THEN req' = [req EXCEPT ![p] =
                Rec("assignTaskToProject", "done", taskId, projectId, <<>>,
                    "NotFound", 0, now)]
         ELSE req' = [req EXCEPT ![p] =
                Rec("assignTaskToProject", "second", taskId, projectId, <<>>,
                    "none", 0, now)]
  /\ UNCHANGED <<tasks, projects, nextTaskId, nextProjectId, now>>

\* variant: the updateOne runs only while the project is still stored
assignTaskToProjectUpdateChecked(p) ==
  /\ Second(p, "assignTaskToProject")
  /\ IF req[p].pid \in DOMAIN projects
       THEN /\ tasks' = updateOne(tasks, req[p].id, "projectId" :> req[p].pid)
            /\ Finish(p, "ok", matchedCount(tasks, req[p].id), now)
       ELSE /\ tasks' = tasks
            /\ Finish(p, "NotFound", 0, now)
  /\ UNCHANGED <<projects, nextTaskId, nextProjectId, now, calls, pre>>

\* assignTaskToProject, the updateOne that $sets projectId
assignTaskToProjectUpdate(p) ==
  /\ Second(p, "assignTaskToProject")
  /\ tasks' = updateOne(tasks, req[p].id, "projectId" :> req[p].pid)
  /\ Finish(p, "ok", matchedCount(tasks, req[p].id), now)
  /\ UNCHANGED <<projects, nextTaskId, nextProjectId, now, calls, pre>>

\* ----------------------------------------------------------- projectService
\* createProject, to the findOne that looks for the name
createProjectFind(p, seq, projectData) ==
  /\ Start(p, seq, projectData)
  /\ IF findByName(projects, <<projectData.name>>) # {}
       THEN req' = [req EXCEPT ![p] =
              Rec("createProject", "done", GhostId, GhostId, <<>>,
                  "Conflict", 0, now)]
       ELSE /\ nextProjectId + InFlight("createProject") <= MaxProjectIds
            /\ req' = [req EXCEPT ![p] =
                 Rec("createProject", "second", GhostId, GhostId, projectData,
                     "none", 0, now)]
  /\ UNCHANGED <<tasks, projects, nextTaskId, nextProjectId, now>>

\* the document createProject inserts
projectToInsert(projectData, createdAt, updatedAt) ==
  [createdAt |-> createdAt, updatedAt |-> updatedAt] @@ projectData

\* createProject, from the two new Date() to the insertOne
createProjectInsert(p) ==
  /\ Second(p, "createProject")
  /\ \E t \in Later :
       /\ projects' = insertOne(projects, nextProjectId,
                                projectToInsert(req[p].arg, now, t))
       /\ now' = t
       /\ Finish(p, "ok", nextProjectId, now)
  /\ nextProjectId' = nextProjectId + 1
  /\ UNCHANGED <<tasks, nextTaskId, calls, pre>>

\* updateProject, to the findOne that looks for updateData.name
updateProjectFind(p, seq, id, updateData) ==
  /\ Start(p, seq, updateData)
  /\ IF ~isValid(id)
       THEN req' = [req EXCEPT ![p] =
              Rec("updateProject", "done", id, GhostId, <<>>,
                  "InvalidArgument", 0, now)]
       ELSE IF findByName(projects, prop(updateData, "name")) # {}
         THEN req' = [req EXCEPT ![p] =
                Rec("updateProject", "done", id, GhostId, <<>>,
                    "Conflict", 0, now)]
         ELSE req' = [req EXCEPT ![p] =
                Rec("updateProject", "second", id, GhostId, updateData,
                    "none", 0, now)]
  /\ UNCHANGED <<tasks, projects, nextTaskId, nextProjectId, now>>

\* updateProject, the updateOne that $sets cleanedUpdateData
updateProjectUpdate(p) ==
  /\ Second(p, "updateProject")
  /\ projects' = updateOne(projects, req[p].id, cleanedData(req[p].arg))
  /\ Finish(p, "ok",
            modifiedCount(projects, req[p].id, cleanedData(req[p].arg)), now)
  /\ UNCHANGED <<tasks, nextTaskId, nextProjectId, now, calls, pre>>

\* variant: the updateMany runs whatever deletedCount is
deleteProjectDeleteAlways(p, seq, id) ==
  /\ Start(p, seq, <<>>)
  /\ IF ~isValid(id)
       THEN /\ req' = [req EXCEPT ![p] =
                 Rec("deleteProject", "done", id, id, <<>>,
                     "InvalidArgument", 0, now)]
            /\ projects' = projects
       ELSE /\ req' = [req EXCEPT ![p] =
                 Rec("deleteProject", "second", id, id, <<>>, "none",
                     deletedCount(projects, id), now)]
            /\ projects' = deleteOne(projects, id)
  /\ UNCHANGED <<tasks, nextTaskId, nextProjectId, now>>

\* deleteProject, to the deleteOne; without a deleted document it returns
deleteProjectDelete(p, seq, id) ==
  /\ Start(p, seq, <<>>)
  /\ IF ~isValid(id)
       THEN /\ req' = [req EXCEPT ![p] =
                 Rec("deleteProject", "done", id, id, <<>>,
                     "InvalidArgument", 0, now)]
            /\ projects' = projects
       ELSE /\ req' = [req EXCEPT ![p] =
                 Rec("deleteProject",
                     IF deletedCount(projects, id) # 0 THEN "second"
                     ELSE "done",
                     id, id, <<>>,
                     IF deletedCount(projects, id) # 0 THEN "none" ELSE "ok",
                     deletedCount(projects, id), now)]
            /\ projects' = deleteOne(projects, id)
  /\ UNCHANGED <<tasks, nextTaskId, nextProjectId, now>>

\* deleteProject, the updateMany that unsets projectId
deleteProjectCascade(p) ==
  /\ Second(p, "deleteProject")
  /\ tasks' = unsetProjectId(tasks, req[p].id)
  /\ Finish(p, "ok", req[p].ret, now)
  /\ UNCHANGED <<projects, nextTaskId, nextProjectId, now, calls, pre>>

\* ------------------------------------------------------------- environment
\* the call is cut off between its two storage calls (the process dies, the
\* connection drops): the second storage call never runs
Interrupt(p) ==
  /\ req[p].pc = "second"
  /\ Finish(p, "Interrupted", 0, now)
  /\ UNCHANGED <<tasks, projects, nextTaskId, nextProjectId, now, calls, pre>>

\* time passes
Tick ==
  /\ now < MaxTime
  /\ now' = now + 1
  /\ UNCHANGED <<tasks, projects, nextTaskId, nextProjectId, req, calls, pre,
                 http>>

\* ---------------------------------------------------------- the HTTP layer
\* app.use(...) in the order of registration
appStack ==
  <<"json", "requestLogger", "taskRoutes", "projectRoutes", "helmet",
    "limiter", "errorHandler">>

\* the routes of the two routers, named by their controllers' service calls
TaskReads == {"getTasks", "getSortedTasks", "searchTasks"}
ProjectReads == {"getProjects", "getSortedProjects"}

TaskRoutes ==
  TaskReads \cup {"createTask", "updateTask", "deleteTask", "updateTaskStatus",
                  "assignTaskToProject"}

ProjectRoutes ==
  ProjectReads \cup {"createProject", "updateProject", "deleteProject"}

\* the routes with validateSchema before the controller
Validated == {"createTask", "updateTask", "createProject", "updateProject"}

\* a method and path that no route of the two routers matches
Unrouted == "unrouted"

NoRequest ==
  [route |-> Unrouted, valid |-> TRUE, stage |-> "idle", at |-> 0,
   passed |-> {}, sent |-> <<>>, hits |-> 0, requests |-> 0]

\* the layer of appStack the request is at
AtLayer(name) ==
  /\ http.stage = "stack"
  /\ http.at \in 1 .. Len(appStack)
  /\ appStack[http.at] = name

\* next(): the request goes on to the layer after this one
next(name) == [http EXCEPT !.at = @ + 1, !.passed = @ \cup {name}]

\* res.status(code).json(...): one more response, the request is over
respond(h, codes) == [h EXCEPT !.sent = @ \o codes, !.stage = "end"]

ServiceIdle ==
  UNCHANGED <<tasks, projects, nextTaskId, nextProjectId, now, req, calls, pre>>

\* a request arrives; valid says whether its body satisfies the schema
Arrive(p, route, valid) ==
  /\ http.stage \in {"idle", "end"}
  /\ http.requests < MaxRequests
  /\ http' = [http EXCEPT !.route = route, !.valid = valid,
                          !.stage = "stack", !.at = 1,
                          !.passed = {}, !.sent = <<>>,
                          !.requests = @ + 1]
  /\ req' = [req EXCEPT ![p] = Idle]
  /\ UNCHANGED <<tasks, projects, nextTaskId, nextProjectId, now, calls, pre>>

\* app.use(express.json())
json ==
  /\ AtLayer("json")
  /\ http' = next("json")
  /\ ServiceIdle

\* app.use((req, res, next) => { logger.info(...); next(); })
requestLogger ==
  /\ AtLayer("requestLogger")
  /\ http' = next("requestLogger")
  /\ ServiceIdle

\* a router: a matching route takes the request, to validateSchema when the
\* route has one and to the controller otherwise; without one the request
\* leaves the router
route(name, routes) ==
  /\ AtLayer(name)
  /\ http' = IF http.route \in routes
               THEN [http EXCEPT !.passed = @ \cup {name},
                                 !.stage = IF http.route \in Validated
                                             THEN "validateSchema"
                                             ELSE "controller"]
               ELSE next(name)
  /\ ServiceIdle

\* app.use('/tasks', taskRoutes)
taskRoutes == route("taskRoutes", TaskRoutes)

\* app.use('/projects', projectRoutes)
projectRoutes == route("projectRoutes", ProjectRoutes)

\* app.use(helmet())
helmet ==
  /\ AtLayer("helmet")
  /\ http' = next("helmet")
  /\ ServiceIdle

\* app.use(limiter): one more hit in the window, 429 beyond max
limiter ==
  /\ AtLayer("limiter")
  /\ http' = IF http.hits + 1 > limiterMax
               THEN respond([http EXCEPT !.hits = @ + 1,
                                         !.passed = @ \cup {"limiter"}],
                            <<429>>)
               ELSE [next("limiter") EXCEPT !.hits = @ + 1]
  /\ ServiceIdle

\* windowMs has passed: the limiter counts from 0 again
limiterWindow ==
  /\ http.hits > 0
  /\ http.stage \in {"idle", "end"}
  /\ http' = [http EXCEPT !.hits = 0]
  /\ ServiceIdle

\* app.use(errorHandler): a handler of errors, left out for a request that
\* comes without one
errorHandler ==
  /\ AtLayer("errorHandler")
  /\ http' = [http EXCEPT !.at = @ + 1]
  /\ ServiceIdle

\* the end of the stack: express answers 404
finalHandler ==
  /\ http.stage = "stack"
  /\ http.at = Len(appStack) + 1
  /\ http' = respond(http, <<404>>)
  /\ ServiceIdle

\* validateSchema(schema): next() for a body that parses, 400 otherwise
validateSchema ==
  /\ http.stage = "validateSchema"
  /\ http' = IF http.valid
               THEN [http EXCEPT !.stage = "controller",
                                 !.passed = @ \cup {"validateSchema"}]
               ELSE respond(http, <<400>>)
  /\ ServiceIdle

\* the controllers of the read routes: res.json(list)
readController ==
  /\ http.stage = "controller"
  /\ http.route \in TaskReads \cup ProjectReads
  /\ http' = respond(http, <<200>>)
  /\ ServiceIdle

\* a controller calls its service function with req.params and req.body
controllerCall(p) ==
  /\ http.stage = "controller"
  /\ req[p].pc = "idle"
  /\ \/ /\ http.route = "createTask"
        /\ \E d \in CreateTaskDtos : KnownRef(d) /\ createTaskFind(p, TRUE, d)
     \/ /\ http.route = "updateTask"
        /\ \E id \in TaskIdInputs, d \in UpdateTaskDtos :
             KnownPatchRef(d) /\ updateTaskFind(p, TRUE, id, d)
     \/ /\ http.route = "deleteTask"
        /\ \E id \in TaskIdInputs : deleteTask(p, TRUE, id)
     \/ /\ http.route = "updateTaskStatus"
        /\ \E id \in TaskIdInputs, s \in Statuses :
             updateTaskStatus(p, TRUE, id, s)
     \/ /\ http.route = "assignTaskToProject"
        /\ \E t \in TaskIdInputs, pr \in ProjectIdInputs :
             assignTaskToProjectFind(p, TRUE, t, pr)
     \/ /\ http.route = "createProject"
        /\ \E d \in CreateProjectDtos : createProjectFind(p, TRUE, d)
     \/ /\ http.route = "updateProject"
        /\ \E id \in ProjectIdInputs, d \in UpdateProjectDtos :
             updateProjectFind(p, TRUE, id, d)
     \/ /\ http.route = "deleteProject"
        /\ \E id \in ProjectIdInputs : deleteProjectDelete(p, TRUE, id)

\* what each controller sends for the outcome of its service call, in the
\* order of its res.status(...).json(...) calls
createTaskController(out, ret) ==
  IF out = "ok" THEN <<201>>
  ELSE IF out = "Conflict" THEN <<409, 500>>
  ELSE <<500>>

updateTaskController(out, ret) == IF out = "ok" THEN <<200>> ELSE <<500>>

deleteTaskController(out, ret) == IF out = "ok" THEN <<200>> ELSE <<500>>

updateTaskStatusController(out, ret) == IF out = "ok" THEN <<200>> ELSE <<500>>

assignTaskToProjectController(out, ret) ==
  IF out = "ok" THEN (IF ret = 0 THEN <<404>> ELSE <<200>>) ELSE <<500>>

createProjectController(out, ret) == IF out = "ok" THEN <<201>> ELSE <<500>>

updateProjectController(out, ret) ==
  IF out = "ok" THEN (IF ret = 0 THEN <<404>> ELSE <<200>>) ELSE <<500>>

deleteProjectController(out, ret) ==
  IF out = "ok" THEN (IF ret = 0 THEN <<404>> ELSE <<200>>) ELSE <<500>>

controllerSends(op, out, ret) ==
  CASE op = "createTask" -> createTaskController(out, ret)
    [] op = "updateTask" -> updateTaskController(out, ret)
    [] op = "deleteTask" -> deleteTaskController(out, ret)
    [] op = "updateTaskStatus" -> updateTaskStatusController(out, ret)
    [] op = "assignTaskToProject" -> assignTaskToProjectController(out, ret)
    [] op = "createProject" -> createProjectController(out, ret)
    [] op = "updateProject" -> updateProjectController(out, ret)
    [] op = "deleteProject" -> deleteProjectController(out, ret)

\* the service call has returned or thrown: the controller answers
controllerRespond(p) ==
  /\ http.stage = "controller"
  /\ req[p].pc = "done"
  /\ http' = respond(http, controllerSends(req[p].op, req[p].out, req[p].ret))
  /\ ServiceIdle

\* ------------------------------------------------------------------- specs
\* The service connects to a database that holds what earlier calls stored:
\* no project or the project createProject stored at time 0, and no task or
\* the task createTask stored at time 0, without or with a projectId.
SeedProject == projectToInsert([name |-> "a", startDate |-> 0, endDate |-> 0], 0, 0)

SeedTask(ref) ==
  taskToInsert([name |-> "a", status |-> "TODO", startDate |-> 0,
                dueDate |-> 0] @@ ref, 0, 0)

Init ==
  /\ projects \in {EmptyColl, insertOne(EmptyColl, 1, SeedProject)}
  /\ tasks \in {EmptyColl, insertOne(EmptyColl, 1, SeedTask(<<>>))}
                 \cup {insertOne(EmptyColl, 1, SeedTask("projectId" :> i)) :
                         i \in DOMAIN projects}
  /\ nextTaskId = Cardinality(DOMAIN tasks) + 1
  /\ nextProjectId = Cardinality(DOMAIN projects) + 1
  /\ now = 0
  /\ req = [p \in Procs |-> Idle]
  /\ calls = 0
  /\ pre = NoCall
  /\ http = NoRequest

First(p, seq) ==
  \/ \E d \in CreateTaskDtos : KnownRef(d) /\ createTaskFind(p, seq, d)
  \/ \E id \in TaskIdInputs, d \in UpdateTaskDtos :
       KnownPatchRef(d) /\ updateTaskFind(p, seq, id, d)
  \/ \E id \in TaskIdInputs : deleteTask(p, seq, id)
  \/ \E id \in TaskIdInputs, s \in Statuses : updateTaskStatus(p, seq, id, s)
  \/ \E t \in TaskIdInputs, pr \in ProjectIdInputs :
       assignTaskToProjectFind(p, seq, t, pr)
  \/ \E d \in CreateProjectDtos : createProjectFind(p, seq, d)
  \/ \E id \in ProjectIdInputs, d \in UpdateProjectDtos :
       updateProjectFind(p, seq, id, d)
  \/ \E id \in ProjectIdInputs : deleteProjectDelete(p, seq, id)

Rest(p) ==
  \/ createTaskInsert(p)
  \/ updateTaskUpdate(p)
  \/ assignTaskToProjectUpdate(p)
  \/ createProjectInsert(p)
  \/ updateProjectUpdate(p)
  \/ deleteProjectCascade(p)
  \/ Interrupt(p)

\* requests interleave at their storage calls
Next == Tick \/ \E p \in Procs : First(p, FALSE) \/ Rest(p)

Spec == Init /\ [][Next]_vars

\* one call at a time
Serial == CHOOSE p \in Procs : TRUE

SeqNext == Tick \/ First(Serial, TRUE) \/ Rest(Serial)

SeqSpec == Init /\ [][SeqNext]_vars

\* one HTTP request at a time through the app, its service call included
HttpNext ==
  \/ \E r \in TaskRoutes \cup ProjectRoutes \cup {Unrouted} :
       \E v \in (IF r \in Validated THEN BOOLEAN ELSE {TRUE}) :
         Arrive(Serial, r, v)
  \/ json
  \/ requestLogger
  \/ taskRoutes
  \/ projectRoutes
  \/ helmet
  \/ limiter
  \/ limiterWindow
  \/ errorHandler
  \/ finalHandler
  \/ validateSchema
  \/ readController
  \/ controllerCall(Serial)
  \/ createTaskInsert(Serial)
  \/ updateTaskUpdate(Serial)
  \/ assignTaskToProjectUpdate(Serial)
  \/ createProjectInsert(Serial)
  \/ updateProjectUpdate(Serial)
  \/ deleteProjectCascade(Serial)
  \/ controllerRespond(Serial)

HttpSpec == Init /\ [][HttpNext]_vars

\* ------------------------------------------------------------- properties
Done(p, op) == req[p].pc = "done" /\ req[p].op = op

\* the call ran to its return or its throw
Ended(p, op) == Done(p, op) /\ req[p].out # "Interrupted"

WithName(coll, n) == {i \in DOMAIN coll : coll[i].name = n}

Referencing(coll, pid) ==
  {i \in DOMAIN coll : "projectId" \in DOMAIN coll[i] /\ coll[i].projectId = pid}

SameDocs(coll, old, ids) ==
  \A i \in ids : i \in DOMAIN coll /\ i \in DOMAIN old /\ coll[i] = old[i]

SameColl(coll, old) == DOMAIN coll = DOMAIN old /\ SameDocs(coll, old, DOMAIN old)

\* C1: when calls run one at a time, no two stored tasks have the same name
\* and no two stored projects have the same name.
C1_UniqueNames ==
  /\ \A i, j \in DOMAIN tasks : tasks[i].name = tasks[j].name => i = j
  /\ \A i, j \in DOMAIN projects : projects[i].name = projects[j].name => i = j

\* two tasks and two projects are stored, the first task renamed by an
\* updateTask before the second was created under its old name
C1_Witness ==
  /\ DOMAIN tasks = {1, 2} /\ tasks[1].name = "b" /\ tasks[2].name = "a"
  /\ Done(Serial, "createTask") /\ req[Serial].out = "ok"
  /\ DOMAIN projects # {}

\* C2: with no other call interleaved, after deleteProject(id) returns 1 the
\* project is not stored, the stored tasks are the ones stored before, and
\* every task that referenced id has no projectId.
C2_DeleteProjectUnlinks ==
  \A p \in Procs :
    Done(p, "deleteProject") /\ req[p].out = "ok" /\ req[p].ret = 1 =>
      /\ req[p].id \notin DOMAIN projects
      /\ DOMAIN tasks = DOMAIN pre.tasks
      /\ \A t \in Referencing(pre.tasks, req[p].id) :
           t \in DOMAIN tasks /\ "projectId" \notin DOMAIN tasks[t]

\* deleteProject returned 1 for a project that a task referenced
C2_Witness ==
  \E p \in Procs :
    /\ Done(p, "deleteProject") /\ req[p].out = "ok" /\ req[p].ret = 1
    /\ Referencing(pre.tasks, req[p].id) # {}

\* C3: whenever a step writes a projectId value into a task (a new task
\* that carries one, or a task whose projectId becomes another value), a
\* project with that identifier is stored.
C3_ProjectExistsAtWrite ==
  [][\A t \in DOMAIN tasks' :
       ( /\ "projectId" \in DOMAIN tasks'[t]
         /\ \/ t \notin DOMAIN tasks
            \/ "projectId" \notin DOMAIN tasks[t]
            \/ tasks[t].projectId # tasks'[t].projectId )
       => tasks'[t].projectId \in DOMAIN projects]_vars

\* C4: the insert of createTask (createProject) is not conditional on the
\* name: once the existence check has passed, the call stores a new record
\* under its name and returns its identifier, whatever the collection holds
\* by then.
C4_InsertWithoutCheck ==
  [][\A p \in Procs :
       /\ Second(p, "createTask") /\ req'[p].pc = "done"
            /\ req'[p].out # "Interrupted"
          => /\ req'[p].out = "ok"
             /\ req'[p].ret \in DOMAIN tasks' \ DOMAIN tasks
             /\ tasks'[req'[p].ret].name = req[p].arg.name
             /\ SameDocs(tasks', tasks, DOMAIN tasks)
       /\ Second(p, "createProject") /\ req'[p].pc = "done"
            /\ req'[p].out # "Interrupted"
          => /\ req'[p].out = "ok"
             /\ req'[p].ret \in DOMAIN projects' \ DOMAIN projects
             /\ projects'[req'[p].ret].name = req[p].arg.name
             /\ SameDocs(projects', projects, DOMAIN projects)]_vars

\* two createTask calls have both returned an identifier and the tasks
\* collection holds both records under one name
C4_Witness ==
  \E p, q \in Procs :
    /\ p # q
    /\ Done(p, "createTask") /\ req[p].out = "ok"
    /\ Done(q, "createTask") /\ req[q].out = "ok"
    /\ req[p].ret # req[q].ret
    /\ {req[p].ret, req[q].ret} \subseteq DOMAIN tasks
    /\ tasks[req[p].ret].name = tasks[req[q].ret].name

\* C5: the projectId write of assignTaskToProject is not conditional on the
\* project: once the existence check has passed, the call sets the task's
\* projectId and returns the match count, also when the project has been
\* deleted and the cascade has run in between.
C5_AssignWithoutCheck ==
  [][\A p \in Procs :
       Second(p, "assignTaskToProject") /\ req'[p].pc = "done"
         /\ req'[p].out # "Interrupted"
       => /\ req'[p].out = "ok"
          /\ req'[p].ret = (IF req[p].id \in DOMAIN tasks THEN 1 ELSE 0)
          /\ DOMAIN tasks' = DOMAIN tasks
          /\ req[p].id \in DOMAIN tasks
               => tasks'[req[p].id].projectId = req[p].pid]_vars

\* deleteProject(pid) returned 1 and assignTaskToProject(t, pid) returned 1:
\* the project is not stored and task t has projectId pid
C5_Witness ==
  \E p, q \in Procs :
    /\ Done(p, "deleteProject") /\ req[p].out = "ok" /\ req[p].ret = 1
    /\ Done(q, "assignTaskToProject") /\ req[q].out = "ok" /\ req[q].ret = 1
    /\ req[q].pid = req[p].id
    /\ req[p].id \notin DOMAIN projects
    /\ req[q].id \in Referencing(tasks, req[p].id)

\* C6: a call cut off between its storage calls leaves the store as it
\* found it, except deleteProject, which leaves the project deleted and
\* every task as it was, the references to the project included.
C6_InterruptedCall ==
  \A p \in Procs :
    req[p].pc = "done" /\ req[p].out = "Interrupted" =>
      /\ SameColl(tasks, pre.tasks)
      /\ IF req[p].op = "deleteProject"
           THEN /\ req[p].id \in DOMAIN pre.projects
                /\ DOMAIN projects = DOMAIN pre.projects \ {req[p].id}
                /\ SameDocs(projects, pre.projects, DOMAIN projects)
           ELSE SameColl(projects, pre.projects)

\* deleteProject was cut off after its delete: a task names the project
\* that is no longer stored
C6_Witness ==
  \E p \in Procs :
    /\ Done(p, "deleteProject") /\ req[p].out = "Interrupted"
    /\ req[p].id \notin DOMAIN projects
    /\ Referencing(tasks, req[p].id) # {}

C8_CreateOnce ==
  \A p \in Procs :
    /\ Ended(p, "createTask") =>
         IF WithName(pre.tasks, pre.arg.name) # {}
           THEN /\ req[p].out = "Conflict"
                /\ SameColl(tasks, pre.tasks)
                /\ Cardinality(WithName(tasks, pre.arg.name)) = 1
           ELSE /\ req[p].out = "ok"
                /\ req[p].ret \notin DOMAIN pre.tasks
                /\ DOMAIN tasks = DOMAIN pre.tasks \cup {req[p].ret}
                /\ SameDocs(tasks, pre.tasks, DOMAIN pre.tasks)
                /\ WithName(tasks, pre.arg.name) = {req[p].ret}
    /\ Ended(p, "createProject") =>
         IF WithName(pre.projects, pre.arg.name) # {}
           THEN /\ req[p].out = "Conflict"
                /\ SameColl(projects, pre.projects)
                /\ Cardinality(WithName(projects, pre.arg.name)) = 1
           ELSE /\ req[p].out = "ok"
                /\ req[p].ret \notin DOMAIN pre.projects
                /\ DOMAIN projects = DOMAIN pre.projects \cup {req[p].ret}
                /\ SameDocs(projects, pre.projects, DOMAIN pre.projects)
                /\ WithName(projects, pre.arg.name) = {req[p].ret}

\* a second createTask under a stored name failed with Conflict
C8_Witness ==
  \E p \in Procs :
    /\ Done(p, "createTask") /\ req[p].out = "Conflict"
    /\ Cardinality(WithName(tasks, pre.arg.name)) = 1
    /\ calls = 2

\* C9: after a successful updateTask (updateProject) on a stored record, the
\* stored updatedAt of the record is the time of the call.
C9_UpdatedAtIsCallTime ==
  \A p \in Procs :
    /\ Done(p, "updateTask") /\ req[p].out = "ok"
         /\ req[p].id \in DOMAIN pre.tasks
         => tasks[req[p].id].updatedAt = req[p].at
    /\ Done(p, "updateProject") /\ req[p].out = "ok"
         /\ req[p].id \in DOMAIN pre.projects
         => projects[req[p].id].updatedAt = req[p].at

\* C10: updateTask (updateProject) changes no field of the target that the
\* DTO omits or carries as undefined, no other record, and nothing in the
\* other collection.
TaskFields ==
  {"name", "status", "startDate", "dueDate", "createdAt", "updatedAt",
   "doneDate", "projectId"}

ProjectFields ==
  {"name", "description", "startDate", "endDate", "createdAt", "updatedAt"}

Omits(dto, k) == k \notin DOMAIN dto \/ dto[k] = undefined

KeepsField(new, old, k) ==
  /\ k \in DOMAIN new <=> k \in DOMAIN old
  /\ k \in DOMAIN old => new[k] = old[k]

C10_UpdateFrame ==
  \A p \in Procs :
    /\ Done(p, "updateTask") /\ req[p].out = "ok" =>
         /\ SameColl(projects, pre.projects)
         /\ DOMAIN tasks = DOMAIN pre.tasks
         /\ SameDocs(tasks, pre.tasks, DOMAIN pre.tasks \ {req[p].id})
         /\ req[p].id \in DOMAIN pre.tasks =>
              /\ DOMAIN tasks[req[p].id] \subseteq TaskFields
              /\ \A k \in TaskFields :
                   Omits(pre.arg, k) =>
                     KeepsField(tasks[req[p].id], pre.tasks[req[p].id], k)
    /\ Done(p, "updateProject") /\ req[p].out = "ok" =>
         /\ SameColl(tasks, pre.tasks)
         /\ DOMAIN projects = DOMAIN pre.projects
         /\ SameDocs(projects, pre.projects, DOMAIN pre.projects \ {req[p].id})
         /\ req[p].id \in DOMAIN pre.projects =>
              /\ DOMAIN projects[req[p].id] \subseteq ProjectFields
              /\ \A k \in ProjectFields :
                   Omits(pre.arg, k) =>
                     KeepsField(projects[req[p].id], pre.projects[req[p].id], k)

\* updateTask renamed a stored task, which has no doneDate, as before
C10_Witness ==
  \E p \in Procs :
    /\ Done(p, "updateTask") /\ req[p].out = "ok" /\ req[p].ret = 1
    /\ req[p].id \in DOMAIN tasks
    /\ tasks[req[p].id].name # pre.tasks[req[p].id].name
    /\ "doneDate" \notin DOMAIN tasks[req[p].id]

\* C11: updateTaskStatus on a stored task is accepted whatever the status of
\* the task; with DONE it sets status, updatedAt and doneDate, the dates read
\* during the call, and keeps startDate; with TODO it sets status, updatedAt
\* and startDate and keeps doneDate; no other field, no other task and no
\* project changes.
DuringCall(p, t) == req[p].at <= t /\ t <= now

C11_StatusFrame ==
  \A p \in Procs :
    Ended(p, "updateTaskStatus") /\ isValid(req[p].id) =>
      /\ req[p].out = "ok"
      /\ SameColl(projects, pre.projects)
      /\ DOMAIN tasks = DOMAIN pre.tasks
      /\ SameDocs(tasks, pre.tasks, DOMAIN pre.tasks \ {req[p].id})
      /\ req[p].id \in DOMAIN pre.tasks =>
           /\ tasks[req[p].id].status = pre.arg
           /\ DuringCall(p, tasks[req[p].id].updatedAt)
           /\ pre.arg = "DONE" =>
                /\ "doneDate" \in DOMAIN tasks[req[p].id]
                /\ DuringCall(p, tasks[req[p].id].doneDate)
                /\ KeepsField(tasks[req[p].id], pre.tasks[req[p].id],
                              "startDate")
           /\ pre.arg = "TODO" =>
                /\ DuringCall(p, tasks[req[p].id].startDate)
                /\ KeepsField(tasks[req[p].id], pre.tasks[req[p].id],
                              "doneDate")
           /\ \A k \in {"name", "dueDate", "createdAt", "projectId"} :
                KeepsField(tasks[req[p].id], pre.tasks[req[p].id], k)

\* updateTaskStatus(id, TODO) reopened a DONE task at time 1: the task is
\* TODO, started at 1, and still has the doneDate of time 0
C11_Witness ==
  \E p \in Procs :
    /\ Done(p, "updateTaskStatus") /\ req[p].out = "ok" /\ req[p].ret = 1
    /\ req[p].id \in DOMAIN tasks /\ req[p].id \in DOMAIN pre.tasks
    /\ pre.tasks[req[p].id].status = "DONE"
    /\ tasks[req[p].id].status = "TODO"
    /\ tasks[req[p].id].startDate = 1
    /\ "doneDate" \in DOMAIN tasks[req[p].id]
    /\ tasks[req[p].id].doneDate = 0

\* C12: a step that gives a task a doneDate, or another doneDate, is the
\* step of an updateTaskStatus call with status DONE.
C12_DoneDateOnlyByStatus ==
  [][\A t \in DOMAIN tasks' :
       ( /\ "doneDate" \in DOMAIN tasks'[t]
         /\ \/ t \notin DOMAIN tasks
            \/ "doneDate" \notin DOMAIN tasks[t]
            \/ tasks[t].doneDate # tasks'[t].doneDate )
       => /\ calls' = calls + 1
          /\ req'[Serial].op = "updateTaskStatus"
          /\ req'[Serial].id = t
          /\ pre'.arg = "DONE"]_vars

\* C13: a task that createTask has just inserted has status TODO and no
\* doneDate, whatever status the DTO carries.
C13_CreatedTodo ==
  \A p \in Procs :
    Done(p, "createTask") /\ req[p].out = "ok" =>
      /\ req[p].ret \in DOMAIN tasks
      /\ tasks[req[p].ret].status = "TODO"
      /\ "doneDate" \notin DOMAIN tasks[req[p].ret]

\* createTask stored a task from a DTO with status DONE
C13_Witness ==
  \E p \in Procs :
    /\ Done(p, "createTask") /\ req[p].out = "ok"
    /\ pre.arg.status = "DONE"
    /\ req[p].ret \in DOMAIN tasks
    /\ tasks[req[p].ret].name = pre.arg.name

\* C14: the record that createTask (createProject) has just inserted has
\* createdAt equal to updatedAt.
C14_CreatedAtIsUpdatedAt ==
  \A p \in Procs :
    /\ Done(p, "createTask") /\ req[p].out = "ok" =>
         tasks[req[p].ret].createdAt = tasks[req[p].ret].updatedAt
    /\ Done(p, "createProject") /\ req[p].out = "ok" =>
         projects[req[p].ret].createdAt = projects[req[p].ret].updatedAt

\* C15: deleteProject with a well-formed id returns 1 and clears the
\* projectId of the tasks that name id when a project id was stored, and
\* returns 0 and changes no task and no project when none was, the tasks
\* that name id included.
C15_CascadeIffDeleted ==
  \A p \in Procs :
    Ended(p, "deleteProject") /\ isValid(req[p].id) =>
      IF req[p].id \in DOMAIN pre.projects
        THEN /\ req[p].out = "ok" /\ req[p].ret = 1
             /\ Referencing(tasks, req[p].id) = {}
        ELSE /\ req[p].out = "ok" /\ req[p].ret = 0
             /\ SameColl(tasks, pre.tasks)
             /\ SameColl(projects, pre.projects)

\* deleteProject returned 0 for an id that names no project while a task
\* names it, and the task still does
C15_Witness ==
  \E p \in Procs :
    /\ Done(p, "deleteProject") /\ req[p].out = "ok" /\ req[p].ret = 0
    /\ Referencing(pre.tasks, req[p].id) # {}
    /\ Referencing(tasks, req[p].id) = Referencing(pre.tasks, req[p].id)

\* C18: updateTask (updateProject) with a well-formed id fails with Conflict
\* exactly when the DTO carries a name and a stored record has that name, the
\* record being updated included; a DTO without a name never fails with
\* Conflict.
C18_ConflictIffNameStored ==
  \A p \in Procs :
    /\ Ended(p, "updateTask") /\ isValid(req[p].id) =>
         (req[p].out = "Conflict" <=>
            /\ ~Omits(pre.arg, "name")
            /\ WithName(pre.tasks, pre.arg.name[1]) # {})
    /\ Ended(p, "updateProject") /\ isValid(req[p].id) =>
         (req[p].out = "Conflict" <=>
            /\ ~Omits(pre.arg, "name")
            /\ WithName(pre.projects, pre.arg.name[1]) # {})

\* updateTask failed with Conflict on a DTO that repeats the name of the
\* task it updates, the only task of that name
C18_Witness ==
  \E p \in Procs :
    /\ Done(p, "updateTask") /\ req[p].out = "Conflict"
    /\ req[p].id \in DOMAIN tasks
    /\ ~Omits(pre.arg, "name")
    /\ WithName(tasks, pre.arg.name[1]) = {req[p].id}

\* the request is over and a controller handled it: its service call ended,
\* or it is a read
Handled(p) ==
  /\ http.stage = "end"
  /\ \/ req[p].pc = "done"
     \/ "taskRoutes" \in http.passed /\ http.route \in TaskReads
     \/ "projectRoutes" \in http.passed /\ http.route \in ProjectReads

\* the status the client receives: the one of the first response
Answer == Head(http.sent)

\* C16: a create or update request whose service call fails with Conflict is
\* answered 409, an assignment whose service call fails with NotFound is
\* answered 404, and a request answered 500 failed with neither.
C16_StatusByKind ==
  \A p \in Procs :
    Handled(p) /\ req[p].pc = "done" =>
      /\ req[p].out = "Conflict" => Answer = 409
      /\ req[p].op = "assignTaskToProject" /\ req[p].out = "NotFound"
           => Answer = 404
      /\ Answer = 500 => req[p].out \notin {"Conflict", "NotFound"}

\* C17: a request that is at a controller has passed helmet and the limiter,
\* and the limiter has counted no more than max requests in the window.
C17_LimitedBeforeController ==
  http.stage = "controller" =>
    /\ {"helmet", "limiter"} \subseteq http.passed
    /\ http.hits <= limiterMax

\* C19: a request that a controller handled was sent exactly one response.
C19_OneResponse ==
  \A p \in Procs : Handled(p) => Len(http.sent) = 1

====
